---- MODULE Spec2Model ----
(***************************************************************************)
(* A state-machine model of carousel-maker's assembly pipeline             *)
(* (src/assemble.py): assemble() validates the arguments, scans and sorts  *)
(* the input directory, renders one clip per asset on a thread pool,       *)
(* crossfade-merges the clips in batches and writes the output file.       *)
(* The sections further down model src/run.py's main and the drop watcher  *)
(* of src/app.py.                                                          *)
(*                                                                         *)
(* Conventions.  Durations are whole seconds.  overlay_scale is in         *)
(* hundredths (90 is 0.9).  A file name is the sequence of its character   *)
(* codes ("1.jpg" is <<49,46,106,112,103>>).  A missing option (None) of   *)
(* width/height is 0, which Python's `or` treats like None.  The           *)
(* transcoding engine (ffmpeg/ffprobe) is the environment: each invocation *)
(* either succeeds or fails, and the model draws the outcome.              *)
(***************************************************************************)
EXTENDS Integers, Sequences, FiniteSets, TLC

VARIABLES
    args,            \* the argparse Namespace handed to assemble()
    listing,         \* input_dir.iterdir(): the directory's entries in enumeration order
    budget,          \* engine faults the environment may still inject
    pc,              \* position of the control thread inside assemble()
    width, height,   \* canvas, locals of assemble()
    files,           \* local `files`: the sorted supported entries
    futures,         \* the pool's futures, one per asset, in submission order
    temp_files,      \* local list temp_files
    clip_durations,  \* local list clip_durations
    batch_files,     \* local list batch_files
    requests,        \* the control thread's renames and engine invocations, in order
    fs,              \* the file system: path -> content, for the paths that exist
    fs0,             \* the file system as it was when assemble() was called
    raised,          \* the exception that left assemble(), or "none"
    overtaken,       \* whether some job finished while an earlier-submitted job had not
    run_idx,         \* run.py: the index of the loop `for idx, file in enumerate(files)`
    folder,          \* app.py: the working folder: file name -> the file under that name
    events,          \* app.py: the observer's queue of events not yet dispatched
    insertion_counter,  \* DropHandler.insertion_counter
    processed_files,    \* DropHandler.processed_files
    file_list,       \* DropHandler.file_list, the paths of its entries
    dropped          \* app.py: how many files were dropped into the working folder

\* the variables of the assembly runs and those of the drop watcher
pipeline == <<args, listing, budget, pc, width, height, files, futures, temp_files,
              clip_durations, batch_files, requests, fs, fs0, raised, overtaken, run_idx>>
watch == <<folder, events, insertion_counter, processed_files, file_list, dropped>>

vars == <<args, listing, budget, pc, width, height, files, futures, temp_files,
          clip_durations, batch_files, requests, fs, fs0, raised, overtaken, run_idx,
          folder, events, insertion_counter, processed_files, file_list, dropped>>

----------------------------------------------------------------------------
(* Bounds of the model *)

\* largest number of supported assets in the input directory
MaxFiles == 12
\* engine faults (failed or empty-output invocations) injected per run
MaxFaults == 1
\* largest configured thread count
MaxThreads == 2
\* largest directory drawn with every mix of images and videos
MaxMixed == 3
\* largest number of batches of a run
MaxBatches == 3

(* Program constants *)

\* batch_size = 10
batch_size == 10

----------------------------------------------------------------------------
(* Generic helpers *)

Min(a, b) == IF a <= b THEN a ELSE b
Max(a, b) == IF a >= b THEN a ELSE b
Abs(x) == IF x < 0 THEN -x ELSE x
Range(s) == {s[i] : i \in 1..Len(s)}

RECURSIVE SumSeq(_)
SumSeq(s) == IF s = <<>> THEN 0 ELSE Head(s) + SumSeq(Tail(s))

RECURSIVE Flatten(_)
Flatten(ss) == IF ss = <<>> THEN <<>> ELSE Head(ss) \o Flatten(Tail(ss))

----------------------------------------------------------------------------
(* File names: Path.suffix, str.lower, Path ordering *)

\* str.lower() on one character code
LowerChar(c) == IF c \in 65..90 THEN c + 32 ELSE c
lower(s) == [i \in 1..Len(s) |-> LowerChar(s[i])]

\* index of the last "." of a name, 0 when there is none
LastDot(name) ==
    LET dots == {i \in 1..Len(name) : name[i] = 46}
    IN  IF dots = {} THEN 0 ELSE CHOOSE i \in dots : \A j \in dots : j <= i

\* Path.suffix: from the last dot on, unless the dot leads or ends the name
suffix(name) ==
    LET i == LastDot(name)
    IN  IF i > 1 /\ i < Len(name) THEN SubSeq(name, i, Len(name)) ELSE <<>>

\* '.jpg', '.jpeg', '.png'
image_exts == { <<46,106,112,103>>, <<46,106,112,101,103>>, <<46,112,110,103>> }
\* supported_exts = {'.jpg', '.jpeg', '.png', '.mp4'}
supported_exts == image_exts \cup { <<46,109,112,52>> }

\* Path.__lt__ for two entries of one directory: code-point order of the names
RECURSIVE PathLess(_, _)
PathLess(a, b) ==
    IF b = <<>> THEN FALSE
    ELSE IF a = <<>> THEN TRUE
    ELSE IF Head(a) # Head(b) THEN Head(a) < Head(b)
    ELSE PathLess(Tail(a), Tail(b))

\* insert entry f into the ascending list s, after the entries not greater than it
RECURSIVE Insert(_, _)
Insert(f, s) ==
    IF s = <<>> THEN <<f>>
    ELSE IF PathLess(f.name, Head(s).name) THEN <<f>> \o s
    ELSE <<Head(s)>> \o Insert(f, Tail(s))

\* a scan that keeps the enumeration order
sorted_skipped(s) == s

\* the first n entries of s in ascending order (the sorted shorter prefix is
\* bound as a value, so that it is computed once)
RECURSIVE SortPrefix(_, _)
SortPrefix(s, n) ==
    IF n = 0 THEN <<>>
    ELSE CHOOSE r \in {Insert(s[n], pre) : pre \in {SortPrefix(s, n - 1)}} : TRUE

\* sorted(iterable): ascending, stable
sorted(s) == SortPrefix(s, Len(s))

\* a scan that takes every entry, whatever its extension
Supported_unfiltered(entries) == entries

\* the generator `f for f in input_dir.iterdir() if f.suffix.lower() in supported_exts`
Supported(entries) == SelectSeq(entries, LAMBDA f : lower(suffix(f.name)) \in supported_exts)

\* files = sorted(...)
ScanFiles(entries) == sorted(Supported(entries))

----------------------------------------------------------------------------
(* Argument validation *)

\* presets of get_resolution_dimensions
presets == [r \in {"720p", "1080p", "4k"} |->
              CASE r = "720p" -> <<1280, 720>>
                [] r = "1080p" -> <<1920, 1080>>
                [] r = "4k" -> <<3840, 2160>>]

\* not 0.0 < args.overlay_scale <= 1.0
BadOverlayScale(a) == ~(0 < a.overlay_scale /\ a.overlay_scale <= 100)

\* a transition check that forgets the upper limit
BadTransition_lax(a) == a.transition_duration < 0

\* transition_duration < 0 or transition_duration >= min(image_duration, max_video_duration)
BadTransition(a) ==
    \/ a.transition_duration < 0
    \/ a.transition_duration >= Min(a.image_duration, a.max_video_duration)

\* get_resolution_dimensions raises ValueError for an unknown preset
BadResolution(a) == a.resolution # "" /\ a.resolution \notin DOMAIN presets

\* args.resolution and get_resolution_dimensions(args.resolution)
\*     or (args.width or 1280, args.height or 720)
Dimensions(a) ==
    IF a.resolution # "" THEN presets[a.resolution]
    ELSE << IF a.width # 0 THEN a.width ELSE 1280,
            IF a.height # 0 THEN a.height ELSE 720 >>

\* validate_16_9_aspect_ratio: abs(width / height - 16/9) > 0.01, over the rationals
BadAspectRatio(w, h) == 100 * Abs(9 * w - 16 * h) > 9 * Abs(h)

\* the ValueError checks of assemble(), in the order the code makes them
Invalid(a) ==
    IF BadOverlayScale(a) THEN TRUE
    ELSE IF BadTransition(a) THEN TRUE
    ELSE IF BadResolution(a) THEN TRUE
    ELSE BadAspectRatio(Dimensions(a)[1], Dimensions(a)[2])

----------------------------------------------------------------------------
(* Paths and file contents *)

RECURSIVE Digits(_)
Digits(n) == IF n < 10 THEN <<n>> ELSE Digits(n \div 10) \o <<(n % 10)>>

\* the format spec :03d, for n >= 0
Fmt03d(n) == LET d == Digits(n) IN [i \in 1..(3 - Len(d)) |-> 0] \o d

\* a clip name that does not depend on the index
TempPath_shared(idx) == [dir |-> "", stem |-> "temp_", num |-> Fmt03d(0)]

\* a path is a directory, a stem and the formatted number; the directory of a
\* relative name is "", and the file system resolves it into the working directory
\* f'temp_{idx:03d}.mp4'
TempPath(idx) == [dir |-> "", stem |-> "temp_", num |-> Fmt03d(idx)]
\* f"batch_{batch_idx:03d}.mp4"
BatchPath(batch_idx) == [dir |-> "", stem |-> "batch_", num |-> Fmt03d(batch_idx)]
\* list_file = 'batch_list.txt'
list_file == [dir |-> "", stem |-> "batch_list.txt", num |-> <<>>]
\* Path(args.output_file).resolve(), Path(batch_file).absolute()
resolve(p) == IF p.dir = "" THEN [p EXCEPT !.dir = "cwd"] ELSE p
\* Path(file_path).parent
Parent(p) == [dir |-> resolve(p).dir, stem |-> "", num |-> <<>>]

\* the file system maps the absolute paths that exist to their content
exists(f, p) == resolve(p) \in DOMAIN f
Content(f, p) == f[resolve(p)]
\* os.path.getsize(p) == 0
IsEmptyFile(f, p) == Content(f, p).state = "empty"
Write(f, p, c) == [q \in DOMAIN f \cup {resolve(p)} |-> IF q = resolve(p) THEN c ELSE f[q]]
Remove(f, p) == [q \in DOMAIN f \ {resolve(p)} |-> f[q]]
\* a rename that removes the source without creating the destination
Rename_dropping(f, src, dst) == Remove(f, src)

\* os.rename(src, dst): dst is replaced by src's content in one step
Rename(f, src, dst) ==
    IF resolve(src) = resolve(dst) THEN f ELSE Remove(Write(f, dst, Content(f, src)), src)

\* `for temp in ...: if os.path.exists(temp): os.remove(temp)`
\* a clean up that removes nothing
RemoveAll_nothing(f, ps) == f

RECURSIVE RemoveAll(_, _)
RemoveAll(f, ps) ==
    IF ps = <<>> THEN f
    ELSE CHOOSE r \in {RemoveAll(g, Tail(ps)) :
                        g \in {IF exists(f, Head(ps)) THEN Remove(f, Head(ps)) ELSE f}} : TRUE

\* contents: a directory, a file that was there before the run, and what the
\* engine writes: a complete file holding the listed clips and lasting dur
\* seconds, a zero-length file, or the partial file a failed invocation leaves
DirContent(writable) == [state |-> IF writable THEN "dir" ELSE "rodir", clips |-> <<>>, dur |-> 0]
OldContent == [state |-> "old", clips |-> <<>>, dur |-> 0]
Media(clips, dur) == [state |-> "full", clips |-> clips, dur |-> dur]
EmptyContent == [state |-> "empty", clips |-> <<>>, dur |-> 0]
PartialContent == [state |-> "partial", clips |-> <<>>, dur |-> 0]

----------------------------------------------------------------------------
(* Clip planning and crossfade timing *)

\* is_image = file.suffix.lower() in {'.jpg', '.jpeg', '.png'}
is_image(file) == lower(suffix(file.name)) \in image_exts

\* a plan that pads no clip with the transition tail
clip_duration_unpadded(file, idx, a) ==
    IF is_image(file) THEN a.image_duration ELSE Min(file.probe, a.max_video_duration)

\* a plan that pads the last clip too
clip_duration_all_padded(file, idx, a) ==
    (IF is_image(file) THEN a.image_duration ELSE Min(file.probe, a.max_video_duration))
        + a.transition_duration

\* process_file: clip_duration
clip_duration(file, idx, a) ==
    LET base == IF is_image(file) THEN a.image_duration
                ELSE Min(file.probe, a.max_video_duration)
    IN  IF idx < a.total_files - 1 THEN base + a.transition_duration ELSE base

\* stage offsets that leave out the overlap with the previous clip
RECURSIVE Offset_no_overlap(_, _, _)
Offset_no_overlap(durs, t, i) ==
    IF i = 0 THEN 0 ELSE Max(0, Offset_no_overlap(durs, t, i - 1) + durs[i])

\* concatenate_batch: the offset of stage i (1 <= i < len(temp_files)); durs is
\* clip_durations, 1-based here, so clip_durations[i-1] is durs[i]
RECURSIVE Offset(_, _, _)
Offset(durs, t, i) ==
    IF i = 0 THEN 0
    ELSE CHOOSE offset \in {Max(0, current_offset + durs[i] - t) :
                                current_offset \in {Offset(durs, t, i - 1)}} : TRUE

\* the offsets of all stages of a batch
Offsets(durs, t) == [i \in 1..(Len(durs) - 1) |-> Offset(durs, t, i)]

\* length of the running clip after stage i: an xfade output ends with its
\* second input, which starts at the stage's offset
RunningDuration(durs, t, i) == Offset(durs, t, i) + durs[i + 1]

\* the batches of the loop `for batch_idx, i in enumerate(range(0, len(temp_files), batch_size))`
NumBatches(n) == (n + batch_size - 1) \div batch_size
\* a slice that hands the clips over in reverse
BatchSlice_reversed(s, b) ==
    LET lo == b * batch_size
        hi == Min(Len(s), (b + 1) * batch_size)
    IN  [j \in 1..(hi - lo) |-> s[hi + 1 - j]]

\* temp_files[i:i + batch_size] for batch b (0-based), as 1-based positions
BatchSlice(s, b) == SubSeq(s, b * batch_size + 1, Min(Len(s), (b + 1) * batch_size))

----------------------------------------------------------------------------
(* Inputs: the arguments, the input directory and the output location *)

\* the output path of the runs
OutPath == [dir |-> "out", stem |-> "carousel.mp4", num |-> <<>>]
CwdDir == [dir |-> "cwd", stem |-> "", num |-> <<>>]

\* the state of the output location before the run: its directory missing,
\* present, holding an earlier output file, or not writable
OutEnvs == {"nodir", "dir", "file", "rodir"}
InitialFs(outenv) ==
    LET cwd == [q \in {CwdDir} |-> DirContent(TRUE)]
    IN  CASE outenv = "nodir" -> cwd
          [] outenv = "dir" -> Write(cwd, Parent(OutPath), DirContent(TRUE))
          [] outenv = "rodir" -> Write(cwd, Parent(OutPath), DirContent(FALSE))
          [] outenv = "file" ->
                Write(Write(cwd, Parent(OutPath), DirContent(TRUE)), OutPath, OldContent)

\* the Namespace handed to assemble(); background_opacity (in hundredths),
\* text_fade_in and text_fade_out are the attributes app.py adds to it, which
\* no line of assemble.py reads
Args(scale, t, d, v, res, w, h, n) ==
    [overlay_scale |-> scale, transition_duration |-> t, image_duration |-> d,
     max_video_duration |-> v, resolution |-> res, width |-> w, height |-> h,
     threads |-> n, output_file |-> OutPath, total_files |-> 0,
     background_opacity |-> 80, text_fade_in |-> 0, text_fade_out |-> 0]

\* the defaults of the command line: 0.9, 1 s transition, 5 s images, 10 s videos
DefaultArgs(n) == Args(90, 1, 5, 10, "720p", 0, 0, n)

\* an entry of the input directory: its name and, for a video, the duration
\* ffprobe reports for it
Entry(name, probe) == [name |-> name, probe |-> probe]

\* "00.jpg", "01.jpg", ...: the image named by the two digits of k
ImageEntry(k) == Entry(<<48 + ((k \div 10) % 10), 48 + (k % 10), 46, 106, 112, 103>>, 0)

\* "1.jpg", "10.JPG", "2.mp4" (a 20 s video) and "n.txt"
Pool == { Entry(<<49, 46, 106, 112, 103>>, 0),
          Entry(<<49, 48, 46, 74, 80, 71>>, 0),
          Entry(<<50, 46, 109, 112, 52>>, 20),
          Entry(<<110, 46, 116, 120, 116>>, 0) }

\* every enumeration order of every subset of a set of entries
Orders(S) ==
    UNION { {s \in [1..Cardinality(T) -> T] : Range(s) = T} : T \in SUBSET S }

\* position k of a mixed directory: an image, or a video of probed duration p
MixedEntry(k, p) ==
    IF p = 0 THEN Entry(<<97 + k, 46, 112, 110, 103>>, 0)
    ELSE Entry(<<97 + k, 46, 109, 112, 52>>, p)

\* probed durations of the videos of a mixed directory (0 stands for an image)
Probes == {0, 1, 4}
MixedListings ==
    UNION { {[k \in 1..n |-> MixedEntry(k, ps[k])] : ps \in [1..n -> Probes]} : n \in 0..MaxMixed }

\* DropHandler.__init__ on the empty folder of mkdtemp: nothing dropped yet
WatcherStart ==
    /\ folder = <<>>
    /\ events = <<>>
    /\ insertion_counter = 0
    /\ processed_files = {}
    /\ file_list = <<>>
    /\ dropped = 0

Start(a, entries, outenv, b) ==
    /\ WatcherStart
    /\ args = a
    /\ listing = entries
    /\ budget = b
    /\ pc = "validate"
    /\ width = 0
    /\ height = 0
    /\ files = <<>>
    /\ futures = <<>>
    /\ temp_files = <<>>
    /\ clip_durations = <<>>
    /\ batch_files = <<>>
    /\ requests = <<>>
    /\ fs = InitialFs(outenv)
    /\ fs0 = InitialFs(outenv)
    /\ raised = "none"
    /\ overtaken = FALSE
    /\ run_idx = 0

\* any enumeration order of a small directory, default arguments
InitOrders ==
    \E entries \in Orders(Pool), n \in 1..MaxThreads :
        Start(DefaultArgs(n), entries, "dir", MaxFaults)

\* images and short or long videos in every combination, several timings
InitTimings ==
    \E entries \in MixedListings, t \in {0, 1, 2}, d \in {3, 5}, v \in {3, 10} :
        Start(Args(90, t, d, v, "720p", 0, 0, 1), entries, "dir", 0)

\* every combination of the validated arguments, on a directory of 0 or 1 image
InitConfigs ==
    \E scale \in {0, 90, 100, 150}, t \in {-1, 0, 1, 5}, res \in {"", "720p", "4k", "8k"},
       wh \in {<<0, 0>>, <<1280, 1000>>, <<1920, 1080>>, <<1000, 0>>},
       outenv \in OutEnvs, k \in 0..1 :
        Start(Args(scale, t, 5, 10, res, wh[1], wh[2], 1), [i \in 1..k |-> ImageEntry(i)],
              outenv, 0)

\* up to MaxFiles images, enumerated in descending order, default arguments,
\* an earlier output file in place; the engine faults are drawn in the
\* single-threaded runs (the multi-threaded runs with faults are InitOrders')
InitImages ==
    \E k \in 0..MaxFiles, n \in 1..MaxThreads :
        Start(DefaultArgs(n), [i \in 1..k |-> ImageEntry(k - i)], "file",
              IF n = 1 THEN MaxFaults ELSE 0)

\* runs of 1..MaxBatches batches, the last batch holding a single clip
InitBatches ==
    \E nb \in 1..MaxBatches :
        LET k == batch_size * (nb - 1) + 1
        IN  Start(DefaultArgs(1), [i \in 1..k |-> ImageEntry(k - i)], "file", 0)

\* process_folder: the Namespace built from the form, whose defaults are
\* 1080p, 11 s images and videos, 0.8, 2 s transition, 2 threads, with the
\* opacity and the text fades as typed into the form
AppArgs(opacity, fade_in, fade_out) ==
    [Args(80, 2, 11, 11, "1080p", 0, 0, 2) EXCEPT !.background_opacity = opacity,
                                                   !.text_fade_in = fade_in,
                                                   !.text_fade_out = fade_out]

\* runs started from the form on one or two dropped images
InitApp ==
    \E opacity \in {-10, 0, 80, 100, 150},
       fade \in {<<4, 2>>, <<0, 0>>, <<6, 5>>, <<11, 0>>}, k \in 1..2 :
        Start(AppArgs(opacity, fade[1], fade[2]), [i \in 1..k |-> ImageEntry(k - i)],
              "dir", 0)

\* runs whose output file is given as a relative name that is also the name of
\* an intermediate file of the run: batch_000.mp4 or temp_000.mp4; these runs
\* have a single batch, so the engine never reads a file it is writing
InitAliased ==
    \E out \in {BatchPath(0), TempPath(0)}, k \in 1..MaxMixed :
        Start([DefaultArgs(1) EXCEPT !.output_file = out],
              [i \in 1..k |-> ImageEntry(k - i)], "nodir", 0)

Init ==
    \/ InitOrders
    \/ InitTimings
    \/ InitConfigs
    \/ InitImages
    \/ InitBatches
    \/ InitApp
    \/ InitAliased

----------------------------------------------------------------------------
(* The control thread: validation and scan *)

Raise(exc) ==
    /\ pc' = "raised"
    /\ raised' = exc

\* assemble(): the argument checks raise ValueError
ValidateRaise ==
    /\ pc = "validate"
    /\ UNCHANGED watch
    /\ Invalid(args)
    /\ Raise("ValueError")
    /\ UNCHANGED <<args, listing, budget, width, height, files, futures, temp_files,
                   clip_durations, batch_files, requests, fs, fs0, overtaken, run_idx>>

\* check_file_writable: os.makedirs(parent, exist_ok=True), then os.access
MakeDirs(f, d) == IF exists(f, d) THEN f ELSE Write(f, d, DirContent(TRUE))

\* assemble(): the arguments pass; check_file_writable creates the output
\* directory and raises PermissionError when it is not writable
ValidateOk ==
    /\ pc = "validate"
    /\ UNCHANGED watch
    /\ ~Invalid(args)
    /\ fs' = MakeDirs(fs, Parent(args.output_file))
    /\ IF Content(fs', Parent(args.output_file)).state = "rodir"
       THEN /\ Raise("PermissionError")
            /\ UNCHANGED <<width, height, fs0>>
       ELSE /\ pc' = "scan"
            /\ raised' = raised
            /\ width' = Dimensions(args)[1]
            /\ height' = Dimensions(args)[2]
    /\ UNCHANGED <<args, listing, budget, files, futures, temp_files,
                   clip_durations, batch_files, requests, fs0, overtaken, run_idx>>

\* a future of the pool: its state and, once done, what process_file returned
Future(status, result) == [status |-> status, result |-> result]

\* assemble(): scan and sort; FileNotFoundError when nothing is supported;
\* otherwise set args.total_files and submit one process_file job per file
\* (executor.map submits them all, in order, before any result is read)
Scan ==
    /\ pc = "scan"
    /\ UNCHANGED watch
    /\ files' = ScanFiles(listing)
    /\ IF files' = <<>>
       THEN /\ Raise("FileNotFoundError")
            /\ UNCHANGED <<args, futures, fs0>>
       ELSE /\ args' = [args EXCEPT !.total_files = Len(files')]
            /\ futures' = [i \in 0..(Len(files') - 1) |-> Future("pending", <<>>)]
            /\ pc' = "render"
            /\ raised' = raised
    /\ UNCHANGED <<listing, budget, width, height, temp_files, clip_durations,
                   batch_files, requests, fs, fs0, overtaken, run_idx>>

----------------------------------------------------------------------------
(* The worker pool: ThreadPoolExecutor(max_workers=args.threads) *)

Indices == DOMAIN futures
Running == {i \in Indices : futures[i].status = "running"}
PoolAlive == pc \in {"render", "drain"}

\* a pool that starts a queued job whether or not a worker is free
WorkerFree_always == TRUE

\* ThreadPoolExecutor(max_workers=args.threads): a worker is idle
WorkerFree == Cardinality(Running) < args.threads

\* a free worker takes the oldest queued job
StartJob(i) ==
    /\ PoolAlive
    /\ UNCHANGED watch
    /\ i \in Indices
    /\ futures[i].status = "pending"
    /\ \A j \in Indices : j < i => futures[j].status # "pending"
    /\ WorkerFree
    /\ futures' = [futures EXCEPT ![i].status = "running"]
    /\ UNCHANGED <<args, listing, budget, pc, width, height, files, temp_files,
                   clip_durations, batch_files, requests, fs, raised, fs0, overtaken, run_idx>>

\* job i ends while a job submitted before it has not ended
Overtakes(i) == \E j \in Indices : j < i /\ futures[j].status \in {"pending", "running"}

\* process_file returns (temp_mp4, clip_duration)
JobResult(i) == <<TempPath(i), clip_duration(files[i + 1], i, args)>>

\* process_file(file, idx): the engine renders the clip into temp_mp4
RenderOk(i) ==
    /\ PoolAlive
    /\ UNCHANGED watch
    /\ i \in Running
    /\ overtaken' = (overtaken \/ Overtakes(i))
    /\ futures' = [futures EXCEPT ![i] = Future("done", JobResult(i))]
    /\ fs' = Write(fs, TempPath(i), Media(<<files[i + 1].name>>, JobResult(i)[2]))
    /\ UNCHANGED <<args, listing, budget, pc, width, height, files, temp_files,
                   clip_durations, batch_files, requests, raised, fs0, run_idx>>

\* process_file(file, idx): the engine exits 0 but leaves a zero-length clip
RenderEmpty(i) ==
    /\ PoolAlive
    /\ UNCHANGED watch
    /\ i \in Running
    /\ overtaken' = (overtaken \/ Overtakes(i))
    /\ budget > 0
    /\ budget' = budget - 1
    /\ futures' = [futures EXCEPT ![i] = Future("done", JobResult(i))]
    /\ fs' = Write(fs, TempPath(i), EmptyContent)
    /\ UNCHANGED <<args, listing, pc, width, height, files, temp_files,
                   clip_durations, batch_files, requests, raised, fs0, run_idx>>

\* process_file(file, idx): ffprobe or ffmpeg exits nonzero, the job raises
\* RuntimeError; a failed ffmpeg may leave a partial clip behind
RenderFail(i) ==
    /\ PoolAlive
    /\ UNCHANGED watch
    /\ i \in Running
    /\ overtaken' = (overtaken \/ Overtakes(i))
    /\ budget > 0
    /\ budget' = budget - 1
    /\ futures' = [futures EXCEPT ![i] = Future("failed", <<>>)]
    /\ \/ fs' = Write(fs, TempPath(i), PartialContent)
       \/ fs' = fs
    /\ UNCHANGED <<args, listing, pc, width, height, files, temp_files,
                   clip_durations, batch_files, requests, raised, fs0, run_idx>>

\* `for temp_mp4, clip_duration in results`: every job returned, the lists are
\* filled in submission order and the with-block ends
CollectOk ==
    /\ pc = "render"
    /\ UNCHANGED watch
    /\ \A i \in Indices : futures[i].status = "done"
    /\ temp_files' = [k \in 1..Len(files) |-> futures[k - 1].result[1]]
    /\ clip_durations' = [k \in 1..Len(files) |-> futures[k - 1].result[2]]
    /\ pc' = "check"
    /\ UNCHANGED <<args, listing, budget, width, height, files, futures,
                   batch_files, requests, fs, raised, fs0, overtaken, run_idx>>

\* `for ... in results`: the first job in submission order that failed raises in
\* the control thread; the result iterator cancels the jobs not yet started
CollectRaise ==
    /\ pc = "render"
    /\ UNCHANGED watch
    /\ \E k \in Indices :
          /\ futures[k].status = "failed"
          /\ \A j \in Indices : j < k => futures[j].status = "done"
    /\ futures' = [i \in Indices |->
                     IF futures[i].status = "pending"
                     THEN Future("cancelled", <<>>) ELSE futures[i]]
    /\ pc' = "drain"
    /\ UNCHANGED <<args, listing, budget, width, height, files, temp_files,
                   clip_durations, batch_files, requests, fs, raised, fs0, overtaken, run_idx>>

\* the with-block's exit waits for the running jobs, then the RuntimeError
\* leaves assemble()
Join ==
    /\ pc = "drain"
    /\ UNCHANGED watch
    /\ Running = {}
    /\ Raise("RuntimeError")
    /\ UNCHANGED <<args, listing, budget, width, height, files, futures, temp_files,
                   clip_durations, batch_files, requests, fs, fs0, overtaken, run_idx>>

----------------------------------------------------------------------------
(* The control thread: integrity check, batches, final concatenation, cleanup *)

\* `if not os.path.exists(temp_file) or os.path.getsize(temp_file) == 0`
MissingOrEmpty(f, p) == ~exists(f, p) \/ IsEmptyFile(f, p)

\* assemble(): "Validate temporary files"
CheckTemp ==
    /\ pc = "check"
    /\ UNCHANGED watch
    /\ IF \E k \in 1..Len(temp_files) : MissingOrEmpty(fs, temp_files[k])
       THEN Raise("FileNotFoundError")
       ELSE /\ pc' = "batch"
            /\ raised' = raised
    /\ UNCHANGED <<args, listing, budget, width, height, files, futures, temp_files,
                   clip_durations, batch_files, requests, fs, fs0, overtaken, run_idx>>

\* the batch the loop is about to process, 0-based
batch_idx == Len(batch_files)
batch_temp_files == BatchSlice(temp_files, batch_idx)
batch_clip_durations == BatchSlice(clip_durations, batch_idx)
batch_output == BatchPath(batch_idx)

\* the engine can read an input that exists and is a complete media file
Readable(f, ps) == \A k \in 1..Len(ps) : exists(f, ps[k]) /\ Content(f, ps[k]).state = "full"

\* the request concatenate_batch builds for a batch of two or more clips
XfadeRequest(inputs, durs, t, out) ==
    [op |-> "xfade", inputs |-> inputs, durations |-> durs, transition |-> t,
     offsets |-> Offsets(durs, t), output |-> out]
\* os.rename(src, dst)
RenameRequest(src, dst) ==
    [op |-> "rename", inputs |-> <<src>>, durations |-> <<>>, transition |-> 0,
     offsets |-> <<>>, output |-> dst]
\* ffmpeg -f concat -i batch_list.txt ... output_file
ConcatRequest(inputs, out) ==
    [op |-> "concat", inputs |-> inputs, durations |-> <<>>, transition |-> 0,
     offsets |-> <<>>, output |-> out]

\* what the engine writes for a crossfade chain: the inputs' clips in order,
\* ending when the last input, started at the last offset, ends
XfadeOutput(f, rq) ==
    Media(Flatten([k \in 1..Len(rq.inputs) |-> Content(f, rq.inputs[k]).clips]),
          RunningDuration(rq.durations, rq.transition, Len(rq.inputs) - 1))

\* the loop's step after a batch: the next batch, or the final concatenation
AfterBatch ==
    /\ batch_files' = Append(batch_files, batch_output)
    /\ pc' = IF batch_idx + 1 < NumBatches(Len(temp_files)) THEN "batch" ELSE "final"
    /\ raised' = raised

\* a concatenate_batch that invokes the engine for a single clip too
UsesEngine_always(clips) == TRUE

\* concatenate_batch: `if len(temp_files) == 1` renames and returns; any other
\* batch goes to the engine
UsesEngine(clips) == Len(clips) # 1

\* concatenate_batch, len(temp_files) == 1: os.rename(temp_files[0], output_file)
BatchRename ==
    /\ pc = "batch"
    /\ UNCHANGED watch
    /\ ~UsesEngine(batch_temp_files)
    /\ fs' = Rename(fs, batch_temp_files[1], batch_output)
    /\ requests' = Append(requests, RenameRequest(batch_temp_files[1], batch_output))
    /\ AfterBatch
    /\ UNCHANGED <<args, listing, budget, width, height, files, futures, temp_files,
                   clip_durations, fs0, overtaken, run_idx>>

\* concatenate_batch, two or more clips: the crossfade invocation succeeds
BatchXfadeOk ==
    /\ pc = "batch"
    /\ UNCHANGED watch
    /\ UsesEngine(batch_temp_files)
    /\ Readable(fs, batch_temp_files)
    /\ \E rq \in {XfadeRequest(batch_temp_files, batch_clip_durations,
                                args.transition_duration, batch_output)} :
           /\ requests' = Append(requests, rq)
           /\ fs' = Write(fs, batch_output, XfadeOutput(fs, rq))
    /\ AfterBatch
    /\ UNCHANGED <<args, listing, budget, width, height, files, futures, temp_files,
                   clip_durations, fs0, overtaken, run_idx>>

\* concatenate_batch: the invocation exits 0 but its output is zero-length
BatchXfadeEmpty ==
    /\ pc = "batch"
    /\ UNCHANGED watch
    /\ UsesEngine(batch_temp_files)
    /\ budget > 0
    /\ budget' = budget - 1
    /\ requests' = Append(requests, XfadeRequest(batch_temp_files, batch_clip_durations,
                                                 args.transition_duration, batch_output))
    /\ fs' = Write(fs, batch_output, EmptyContent)
    /\ AfterBatch
    /\ UNCHANGED <<args, listing, width, height, files, futures, temp_files,
                   clip_durations, fs0, overtaken, run_idx>>

\* concatenate_batch: the invocation exits nonzero, RuntimeError; it may leave a
\* partial segment behind
BatchXfadeFail ==
    /\ pc = "batch"
    /\ UNCHANGED watch
    /\ UsesEngine(batch_temp_files)
    /\ \/ /\ budget > 0
          /\ budget' = budget - 1
       \/ /\ ~Readable(fs, batch_temp_files)
          /\ budget' = budget
    /\ requests' = Append(requests, XfadeRequest(batch_temp_files, batch_clip_durations,
                                                 args.transition_duration, batch_output))
    /\ \/ fs' = Write(fs, batch_output, PartialContent)
       \/ fs' = fs
    /\ Raise("RuntimeError")
    /\ UNCHANGED <<args, listing, width, height, files, futures, temp_files,
                   clip_durations, batch_files, fs0, overtaken, run_idx>>

output_file == resolve(args.output_file)

\* the list the concat demuxer reads: the absolute paths of the batch files
ListedPaths == [k \in 1..Len(batch_files) |-> resolve(batch_files[k])]

\* what the concat demuxer writes: its inputs one after the other
ConcatOutput(f, ps) ==
    Media(Flatten([k \in 1..Len(ps) |-> Content(f, ps[k]).clips]),
          SumSeq([k \in 1..Len(ps) |-> Content(f, ps[k]).dur]))

\* "Final concatenation", one batch: os.rename(batch_files[0], output_file)
FinalRename ==
    /\ pc = "final"
    /\ UNCHANGED watch
    /\ Len(batch_files) = 1
    /\ fs' = Rename(fs, batch_files[1], output_file)
    /\ requests' = Append(requests, RenameRequest(batch_files[1], output_file))
    /\ pc' = "cleanup"
    /\ UNCHANGED <<args, listing, budget, width, height, files, futures, temp_files,
                   clip_durations, batch_files, raised, fs0, overtaken, run_idx>>

\* "Final concatenation", several batches: batch_list.txt is written, the engine
\* concatenates the listed files into output_file, the list is removed
FinalConcatOk ==
    /\ pc = "final"
    /\ UNCHANGED watch
    /\ Len(batch_files) > 1
    /\ Readable(fs, ListedPaths)
    /\ fs' = Remove(Write(Write(fs, list_file, Media(<<>>, 0)), output_file,
                          ConcatOutput(fs, ListedPaths)), list_file)
    /\ requests' = Append(requests, ConcatRequest(ListedPaths, output_file))
    /\ pc' = "cleanup"
    /\ UNCHANGED <<args, listing, budget, width, height, files, futures, temp_files,
                   clip_durations, batch_files, raised, fs0, overtaken, run_idx>>

\* "Final concatenation": the engine exits nonzero; subprocess.run(check=True)
\* raises CalledProcessError, batch_list.txt stays, and the engine, which writes
\* output_file in place (-y), may have left a partial file there
FinalConcatFail ==
    /\ pc = "final"
    /\ UNCHANGED watch
    /\ Len(batch_files) > 1
    /\ \/ /\ budget > 0
          /\ budget' = budget - 1
       \/ /\ ~Readable(fs, ListedPaths)
          /\ budget' = budget
    /\ \/ fs' = Write(Write(fs, list_file, Media(<<>>, 0)), output_file, PartialContent)
       \/ fs' = Write(fs, list_file, Media(<<>>, 0))
    /\ requests' = Append(requests, ConcatRequest(ListedPaths, output_file))
    /\ Raise("CalledProcessError")
    /\ UNCHANGED <<args, listing, width, height, files, futures, temp_files,
                   clip_durations, batch_files, fs0, overtaken, run_idx>>

\* "Clean up": remove every temp and batch file that still exists, then return
Cleanup ==
    /\ pc = "cleanup"
    /\ UNCHANGED watch
    /\ fs' = RemoveAll(fs, temp_files \o batch_files)
    /\ pc' = "returned"
    /\ UNCHANGED <<args, listing, budget, width, height, files, futures, temp_files,
                   clip_durations, batch_files, requests, raised, fs0, overtaken, run_idx>>

----------------------------------------------------------------------------

Next ==
    \/ ValidateRaise
    \/ ValidateOk
    \/ Scan
    \/ \E i \in Indices : StartJob(i)
    \/ \E i \in Indices : RenderOk(i)
    \/ \E i \in Indices : RenderEmpty(i)
    \/ \E i \in Indices : RenderFail(i)
    \/ CollectOk
    \/ CollectRaise
    \/ Join
    \/ CheckTemp
    \/ BatchRename
    \/ BatchXfadeOk
    \/ BatchXfadeEmpty
    \/ BatchXfadeFail
    \/ FinalRename
    \/ FinalConcatOk
    \/ FinalConcatFail
    \/ Cleanup

Spec == Init /\ [][Next]_vars

\* the control thread and the workers keep running and every engine invocation
\* returns: a step that can be taken is eventually taken
FairSpec == Spec /\ WF_vars(Next)

----------------------------------------------------------------------------
(* The command-line pipeline of src/run.py: main() renders one segment per    *)
(* asset in a sequential loop, then concatenates the segments, in batches of  *)
(* batch_size when there are more.  It uses the variables listing, files,     *)
(* temp_files, batch_files (its batch_outputs), requests, fs, budget, pc,     *)
(* raised and run_idx; the others keep their initial values.                  *)

\* temp_dir = Path('temp_carousel_files').resolve()
temp_dir == [dir |-> "temp_carousel_files", stem |-> "", num |-> <<>>]
\* temp_dir / name
InTempDir(p) == [p EXCEPT !.dir = "temp_carousel_files"]
\* f'segment_{idx:03d}.mp4'
SegmentName(i) == [dir |-> "", stem |-> "segment_", num |-> Fmt03d(i)]
\* temp_dir / 'temp_frame.jpg', temp_dir / 'temp_bg.jpg'
temp_frame_path == InTempDir([dir |-> "", stem |-> "temp_frame.jpg", num |-> <<>>])
bg_path == InTempDir([dir |-> "", stem |-> "temp_bg.jpg", num |-> <<>>])
\* temp_dir / 'list.txt', temp_dir / 'batch_list.txt'
list_file_path == InTempDir([dir |-> "", stem |-> "list.txt", num |-> <<>>])
batch_list_path == InTempDir([dir |-> "", stem |-> "batch_list.txt", num |-> <<>>])
\* temp_dir / f"batch_{i//batch_size}.mp4"
RunBatchPath(b) == InTempDir([dir |-> "", stem |-> "batch_", num |-> Digits(b)])

\* segment_duration: no transition padding in this pipeline
segment_duration(file, a) ==
    IF is_image(file) THEN a.image_duration ELSE Min(file.probe, a.max_video_duration)

\* `for f in temp_dir.glob('*'): f.unlink()`
UnlinkTempFiles(f) ==
    [q \in {p \in DOMAIN f : ~(p.dir = "temp_carousel_files" /\ p.stem # "")} |-> f[q]]

\* the variables main() of run.py does not use
RunUnused == <<width, height, futures, clip_durations, overtaken>>

\* main() starts: image_duration 10, max_video_duration 10; the temporary
\* directory may be left over from an earlier run, with a stale segment in it
RunStart(entries, outenv, stale, b) ==
    /\ WatcherStart
    /\ args = Args(90, 0, 10, 10, "", 1280, 720, 1)
    /\ listing = entries
    /\ budget = b
    /\ pc = "run_setup"
    /\ width = 0
    /\ height = 0
    /\ files = <<>>
    /\ futures = <<>>
    /\ temp_files = <<>>
    /\ clip_durations = <<>>
    /\ batch_files = <<>>
    /\ requests = <<>>
    /\ fs = IF stale
            THEN Write(Write(InitialFs(outenv), temp_dir, DirContent(TRUE)),
                       InTempDir(SegmentName(0)), OldContent)
            ELSE InitialFs(outenv)
    /\ fs0 = fs
    /\ raised = "none"
    /\ overtaken = FALSE
    /\ run_idx = 0

RunInit ==
    \/ \E k \in 0..MaxFiles, outenv \in {"nodir", "file"}, stale \in BOOLEAN, b \in 0..MaxFaults :
          RunStart([i \in 1..k |-> ImageEntry(k - i)], outenv, stale, b)
    \/ \E entries \in MixedListings :
          RunStart(entries, "dir", FALSE, MaxFaults)

\* main(): the output directory and the temporary directory are made (an
\* existing temporary directory is emptied), the input directory is scanned
\* and sorted; main returns when there is no supported file
RunSetup ==
    /\ pc = "run_setup"
    /\ UNCHANGED watch
    /\ \E made \in {MakeDirs(fs, Parent(args.output_file))} :
          fs' = IF exists(made, temp_dir) THEN UnlinkTempFiles(made)
                ELSE Write(made, temp_dir, DirContent(TRUE))
    /\ files' = ScanFiles(listing)
    /\ pc' = IF files' = <<>> THEN "run_done" ELSE "run_segment"
    /\ UNCHANGED <<RunUnused, args, listing, budget, temp_files, batch_files, requests,
                   fs0, raised, run_idx>>

\* the loop's step after the segment of files[run_idx]: the next file; after the
\* last one main() returns when no segment was created, else it concatenates
AfterSegment(made) ==
    /\ run_idx' = run_idx + 1
    /\ pc' = IF run_idx + 1 < Len(files) THEN "run_segment"
             ELSE IF made = <<>> THEN "run_done" ELSE "run_concat"
    /\ raised' = raised

\* what the loop body leaves in the temporary directory before the segment command
Prepared(f) == Write(Write(f, temp_frame_path, Media(<<>>, 0)), bg_path, Media(<<>>, 0))

\* the loop body: the frame, the background and the segment are written and
\* the segment's name is appended to temp_files
RunSegmentOk ==
    /\ pc = "run_segment"
    /\ UNCHANGED watch
    /\ fs' = Write(Prepared(fs), InTempDir(SegmentName(run_idx)),
                   Media(<<files[run_idx + 1].name>>,
                         segment_duration(files[run_idx + 1], args)))
    /\ temp_files' = Append(temp_files, SegmentName(run_idx))
    /\ AfterSegment(temp_files')
    /\ UNCHANGED <<RunUnused, args, listing, budget, files, batch_files, requests, fs0>>

\* the loop body: the segment command fails; `except Exception: continue`
RunSegmentFail ==
    /\ pc = "run_segment"
    /\ UNCHANGED watch
    /\ budget > 0
    /\ budget' = budget - 1
    /\ \/ fs' = Write(Prepared(fs), InTempDir(SegmentName(run_idx)), PartialContent)
       \/ fs' = Prepared(fs)
    /\ AfterSegment(temp_files)
    /\ UNCHANGED <<RunUnused, args, listing, files, temp_files, batch_files, requests, fs0>>

\* the loop body: an engine call outside any try block fails (the first frame
\* of a video, the blurred background, a video's dimensions); the
\* CalledProcessError leaves main()
RunPrepareFail ==
    /\ pc = "run_segment"
    /\ UNCHANGED watch
    /\ budget > 0
    /\ budget' = budget - 1
    /\ Raise("CalledProcessError")
    /\ UNCHANGED <<RunUnused, args, listing, files, temp_files, batch_files, requests,
                   fs, fs0, run_idx>>

\* full_path = temp_dir / tf, resolved, for every listed segment
SegmentPaths(names) == [k \in 1..Len(names) |-> InTempDir(names[k])]

\* concat_segments_in_batches, len(temp_files) <= batch_size: one
\* concat_with_concat_demuxer call writes the output
RunConcatOk ==
    /\ pc = "run_concat"
    /\ UNCHANGED watch
    /\ Len(temp_files) <= batch_size
    /\ Readable(fs, SegmentPaths(temp_files))
    /\ fs' = Write(Write(fs, list_file_path, Media(<<>>, 0)), output_file,
                   ConcatOutput(fs, SegmentPaths(temp_files)))
    /\ requests' = Append(requests, ConcatRequest(SegmentPaths(temp_files), output_file))
    /\ pc' = "run_cleanup"
    /\ UNCHANGED <<RunUnused, args, listing, budget, files, temp_files, batch_files,
                   fs0, raised, run_idx>>

\* concat_with_concat_demuxer: the engine fails; the exception is printed and
\* False is returned, which the caller does not read
RunConcatFail ==
    /\ pc = "run_concat"
    /\ UNCHANGED watch
    /\ Len(temp_files) <= batch_size
    /\ budget > 0
    /\ budget' = budget - 1
    /\ \/ fs' = Write(Write(fs, list_file_path, Media(<<>>, 0)), output_file, PartialContent)
       \/ fs' = Write(fs, list_file_path, Media(<<>>, 0))
    /\ requests' = Append(requests, ConcatRequest(SegmentPaths(temp_files), output_file))
    /\ pc' = "run_cleanup"
    /\ UNCHANGED <<RunUnused, args, listing, files, temp_files, batch_files,
                   fs0, raised, run_idx>>

\* the batch loop's step: batch_outputs.append(batch_output), whatever the
\* concatenation returned
AfterRunBatch ==
    /\ batch_files' = Append(batch_files, RunBatchPath(batch_idx))
    /\ pc' = IF batch_idx + 1 < NumBatches(Len(temp_files)) THEN "run_concat" ELSE "run_final"

\* concat_segments_in_batches, more than batch_size segments: the next batch
\* is concatenated into batch_<n>.mp4
RunBatchOk ==
    /\ pc = "run_concat"
    /\ UNCHANGED watch
    /\ Len(temp_files) > batch_size
    /\ Readable(fs, SegmentPaths(batch_temp_files))
    /\ fs' = Write(Write(fs, list_file_path, Media(<<>>, 0)), RunBatchPath(batch_idx),
                   ConcatOutput(fs, SegmentPaths(batch_temp_files)))
    /\ requests' = Append(requests, ConcatRequest(SegmentPaths(batch_temp_files),
                                                  RunBatchPath(batch_idx)))
    /\ AfterRunBatch
    /\ UNCHANGED <<RunUnused, args, listing, budget, files, temp_files,
                   fs0, raised, run_idx>>

\* the concatenation of a batch fails; the loop goes on to the next batch
RunBatchFail ==
    /\ pc = "run_concat"
    /\ UNCHANGED watch
    /\ Len(temp_files) > batch_size
    /\ budget > 0
    /\ budget' = budget - 1
    /\ \/ fs' = Write(Write(fs, list_file_path, Media(<<>>, 0)), RunBatchPath(batch_idx),
                      PartialContent)
       \/ fs' = Write(fs, list_file_path, Media(<<>>, 0))
    /\ requests' = Append(requests, ConcatRequest(SegmentPaths(batch_temp_files),
                                                  RunBatchPath(batch_idx)))
    /\ AfterRunBatch
    /\ UNCHANGED <<RunUnused, args, listing, files, temp_files, fs0, raised, run_idx>>

\* "Multiple batches need to be combined": the batch outputs are concatenated
\* into the output file
RunFinalOk ==
    /\ pc = "run_final"
    /\ UNCHANGED watch
    /\ Readable(fs, batch_files)
    /\ fs' = Write(Write(fs, batch_list_path, Media(<<>>, 0)), output_file,
                   ConcatOutput(fs, batch_files))
    /\ requests' = Append(requests, ConcatRequest(batch_files, output_file))
    /\ pc' = "run_cleanup"
    /\ UNCHANGED <<RunUnused, args, listing, budget, files, temp_files, batch_files,
                   fs0, raised, run_idx>>

\* the combination fails: `except Exception` copies the first batch output,
\* when it exists, to the output file
RunFinalFail ==
    /\ pc = "run_final"
    /\ UNCHANGED watch
    /\ \/ /\ budget > 0
          /\ budget' = budget - 1
       \/ /\ ~Readable(fs, batch_files)
          /\ budget' = budget
    /\ \E listed \in {Write(fs, batch_list_path, Media(<<>>, 0))} :
          IF exists(fs, batch_files[1])
          THEN fs' = Write(listed, output_file, Content(fs, batch_files[1]))
          ELSE \/ fs' = Write(listed, output_file, PartialContent)
               \/ fs' = listed
    /\ requests' = Append(requests, ConcatRequest(batch_files, output_file))
    /\ pc' = "run_cleanup"
    /\ UNCHANGED <<RunUnused, args, listing, files, temp_files, batch_files,
                   fs0, raised, run_idx>>

\* "Clean up temp directory": every file of it is unlinked, then rmdir
RunCleanup ==
    /\ pc = "run_cleanup"
    /\ UNCHANGED watch
    /\ fs' = Remove(UnlinkTempFiles(fs), temp_dir)
    /\ pc' = "run_done"
    /\ UNCHANGED <<RunUnused, args, listing, budget, files, temp_files, batch_files,
                   requests, fs0, raised, run_idx>>

RunNext ==
    \/ RunSetup
    \/ RunSegmentOk
    \/ RunSegmentFail
    \/ RunPrepareFail
    \/ RunConcatOk
    \/ RunConcatFail
    \/ RunBatchOk
    \/ RunBatchFail
    \/ RunFinalOk
    \/ RunFinalFail
    \/ RunCleanup

RunSpec == RunInit /\ [][RunNext]_vars

----------------------------------------------------------------------------
(* Vocabulary of the claims *)

Ended == pc \in {"returned", "raised"}
Scanned == pc \notin {"validate", "scan"} /\ files # <<>>
Collected == pc \in {"check", "batch", "final", "cleanup", "returned"}

\* the specification's error taxonomy, as the exception classes the code raises
ValidationError == "ValueError"
NotFoundError == "FileNotFoundError"
EngineError == "RuntimeError"

\* code-point (lexicographic) order of two names, stated without recursion
LexBefore(a, b) ==
    \E k \in 1..(Len(b)) :
        /\ \A j \in 1..(k - 1) : j <= Len(a) /\ a[j] = b[j]
        /\ k - 1 <= Len(a)
        /\ (k > Len(a) \/ a[k] < b[k])

\* the supported extensions, any letter case
HasSupportedExt(name) ==
    \E e \in { <<106,112,103>>, <<106,112,101,103>>, <<112,110,103>>, <<109,112,52>> } :
        /\ Len(name) > Len(e) + 1
        /\ name[Len(name) - Len(e)] = 46
        /\ \A j \in 1..Len(e) :
              LET c == name[Len(name) - Len(e) + j]
              IN  c = e[j] \/ c + 32 = e[j]

AllImages == \A k \in 1..Len(files) : is_image(files[k])

\* the temporary artifacts of a run that exist
TempArtifacts == {p \in DOMAIN fs : p.dir = "cwd" /\ p.stem \in {"temp_", "batch_", "batch_list.txt"}}

\* the output path holds what it held before the run
OutputUntouched ==
    /\ exists(fs, args.output_file) <=> exists(fs0, args.output_file)
    /\ exists(fs, args.output_file) =>
          Content(fs, args.output_file) = Content(fs0, args.output_file)

XfadeRequests == {k \in 1..Len(requests) : requests[k].op = "xfade"}

\* a path of the working directory that names an intermediate of the run
IsIntermediate(p) == p.dir = "cwd" /\ p.stem \in {"temp_", "batch_", "batch_list.txt"}
\* the output path is none of the intermediates' paths
OutputApart == ~IsIntermediate(resolve(args.output_file))
\* the output path holds a complete, non-empty media file
OutputComplete ==
    /\ exists(fs, args.output_file)
    /\ Content(fs, args.output_file).state = "full"
    /\ Content(fs, args.output_file).dur > 0

----------------------------------------------------------------------------
(* C1 *)

\* C1: the carousel order is a function of the file names alone: whatever the
\* enumeration order, `files` holds exactly the supported entries, ascending by
\* name, job i is the job of the i-th file, and the clip rendered into the i-th
\* temporary file is the clip of the i-th name
C1_SortedOrder ==
    Scanned =>
        /\ Range(files) = {f \in Range(listing) : HasSupportedExt(f.name)}
        /\ \A i, j \in 1..Len(files) : i < j => LexBefore(files[i].name, files[j].name)
        /\ DOMAIN futures = 0..(Len(files) - 1)
        /\ \A i \in DOMAIN futures :
              (OutputApart /\ exists(fs, TempPath(i)) /\ Content(fs, TempPath(i)).state = "full")
                  => Content(fs, TempPath(i)).clips = <<files[i + 1].name>>
        /\ Collected => temp_files = [k \in 1..Len(files) |-> TempPath(k - 1)]

\* C1 witness: a run that returned for three files enumerated out of order,
\* among them "10.JPG", which sorts before "2.mp4"
C1_Witness ==
    /\ pc = "returned"
    /\ Len(files) = 3
    /\ Supported(listing) # files
    /\ files[2].name = <<49, 48, 46, 74, 80, 71>>

----------------------------------------------------------------------------
(* C2 *)

\* C2: for image-only assets every clip but the last lasts image_duration +
\* transition_duration and the last lasts image_duration
C2_ImageDurations ==
    (Collected /\ AllImages) =>
        /\ Len(clip_durations) = Len(files)
        /\ \A k \in 1..Len(files) :
              clip_durations[k] =
                  IF k < Len(files) THEN args.image_duration + args.transition_duration
                  ELSE args.image_duration

\* C2 witness: three images with a positive transition have been rendered
C2_Witness ==
    /\ Collected
    /\ AllImages
    /\ Len(files) = 3
    /\ args.transition_duration > 0

\* C2 witness for N = 1: the single clip lasts image_duration
C2_WitnessSingle ==
    /\ Collected
    /\ AllImages
    /\ Len(files) = 1
    /\ clip_durations = <<args.image_duration>>

----------------------------------------------------------------------------
(* C3 *)

\* C3: in every crossfade request the offsets strictly increase, each offset is
\* at most the length of the running clip it is applied to (clip 0 for the
\* first stage, afterwards the previous offset plus the previous stage's
\* second input), and the unclamped value is positive, so max(0, .) never
\* decides
C3_Offsets ==
    \A r \in XfadeRequests :
        LET rq == requests[r]
            prev(k) == IF k = 1 THEN 0 ELSE rq.offsets[k - 1]
        IN  /\ Len(rq.offsets) = Len(rq.inputs) - 1
            /\ \A k \in 1..Len(rq.offsets) :
                  /\ prev(k) < rq.offsets[k]
                  /\ rq.offsets[k] <= prev(k) + rq.durations[k]
                  /\ prev(k) + rq.durations[k] - rq.transition > 0
                  /\ rq.offsets[k] = prev(k) + rq.durations[k] - rq.transition

\* C3 witness: a crossfade of three clips, one of them a video shorter than
\* the transition
C3_Witness ==
    \E r \in XfadeRequests :
        /\ Len(requests[r].offsets) = 2
        /\ requests[r].transition = 2
        /\ \E k \in 1..2 : requests[r].durations[k] - requests[r].transition = 1

----------------------------------------------------------------------------
(* C4 *)

\* clamp(1, 2 x threads, 10)
ClampedBatchSize(threads) == Max(1, Min(2 * threads, 10))

\* C4 as stated: no batch handed to concatenate_batch holds more than
\* clamp(1, 2 x threads, 10) clips
C4_BatchBound ==
    pc = "batch" => Len(batch_temp_files) <= ClampedBatchSize(args.threads)

----------------------------------------------------------------------------
(* C5 *)

ScenarioD ==
    /\ Len(files) = 3
    /\ AllImages
    /\ args.image_duration = 5
    /\ args.transition_duration = 1
    /\ args.threads = 2

\* what scenario D has in common in the claim and in the code: durations
\* [6, 6, 5], one batch, one crossfade request with two stages, and the output
\* produced by renaming the batch segment, with no concatenation request
ScenarioDShape ==
    /\ clip_durations = <<6, 6, 5>>
    /\ batch_files = <<BatchPath(0)>>
    /\ Len(requests) = 2
    /\ requests[1].op = "xfade"
    /\ requests[1].inputs = <<TempPath(0), TempPath(1), TempPath(2)>>
    /\ Len(requests[1].offsets) = 2
    /\ requests[2] = RenameRequest(BatchPath(0), output_file)

\* C5 as stated: the two crossfade stages are at offsets 0 and then >= 5
C5_ScenarioD ==
    (ScenarioD /\ pc = "returned") =>
        /\ ScenarioDShape
        /\ requests[1].offsets[1] = 0
        /\ requests[1].offsets[2] >= 5

\* C5 amended: the two crossfade stages are at offsets 5 and 10
C5_ScenarioD_Amended ==
    (ScenarioD /\ pc = "returned") =>
        /\ ScenarioDShape
        /\ requests[1].offsets = <<5, 10>>

\* C5 witness: scenario D has run to its end and produced the whole output
C5_Witness ==
    /\ ScenarioD
    /\ pc = "returned"
    /\ Len(requests) = 2
    /\ Content(fs, args.output_file).state = "full"

----------------------------------------------------------------------------
(* C6 *)

\* C6 as stated: when a render job failed, the run ends with EngineError, the
\* clips the sibling jobs rendered are gone, and the output path is untouched
C6_RenderFailure ==
    (pc = "raised" /\ \E i \in DOMAIN futures : futures[i].status = "failed") =>
        /\ raised = EngineError
        /\ \A i \in DOMAIN futures :
              futures[i].status = "done" => ~exists(fs, TempPath(i))
        /\ OutputUntouched

----------------------------------------------------------------------------
(* C7 *)

\* C7 as stated: once the run has ended, on any exit path, no temporary
\* artifact exists
C7_NoArtifactsLeft == Ended => TempArtifacts = {}

----------------------------------------------------------------------------
(* C8 *)

\* C8 as stated: after a failed run the output path holds nothing the run wrote
C8_NoPartialOutput == pc = "raised" => OutputUntouched

----------------------------------------------------------------------------
(* C9 *)

\* the canvas of a configuration whose resolution option is a preset or absent
HasCanvas(a) == a.resolution = "" \/ a.resolution \in DOMAIN presets

\* the configurations C9 is about
ViolatesConfiguration(a) ==
    \/ ~(0 < a.overlay_scale /\ a.overlay_scale <= 100)
    \/ ~(a.transition_duration < Min(a.image_duration, a.max_video_duration))
    \/ (HasCanvas(a) /\ BadAspectRatio(Dimensions(a)[1], Dimensions(a)[2]))

\* C9: such a configuration ends the run with ValidationError as its first
\* step: nothing was scanned, no job was submitted, nothing was asked of the
\* engine, and the file system is as it was
C9_ValidationFirst ==
    (ViolatesConfiguration(args) /\ pc # "validate") =>
        /\ pc = "raised"
        /\ raised = ValidationError
        /\ fs = fs0
        /\ files = <<>>
        /\ futures = <<>>
        /\ requests = <<>>

\* C9 witness: a 1280x1000 canvas, otherwise valid, with the output directory
\* missing, was rejected
C9_Witness ==
    /\ pc = "raised"
    /\ raised = ValidationError
    /\ args.resolution = ""
    /\ <<args.width, args.height>> = <<1280, 1000>>
    /\ args.overlay_scale = 90
    /\ args.transition_duration = 1
    /\ ~exists(fs0, Parent(args.output_file))
    /\ listing # <<>>

\* C9 witness for overlay_scale = 1.5
C9_WitnessScale ==
    /\ pc = "raised"
    /\ raised = ValidationError
    /\ args.overlay_scale = 150
    /\ ~BadTransition(args)
    /\ args.resolution = "720p"

----------------------------------------------------------------------------
(* C10 *)

NoSupportedFile == \A k \in 1..Len(listing) : ~HasSupportedExt(listing[k].name)

\* C10: with no supported file in the input directory no render job is ever
\* submitted or started, the run never gets past the scan, and the run, unless
\* validation or the output directory's permissions stopped it before the
\* scan, fails with NotFoundError
C10_EmptyDirectory ==
    NoSupportedFile =>
        /\ futures = <<>>
        /\ pc \in {"validate", "scan", "raised"}
        /\ (pc = "raised" /\ raised \notin {ValidationError, "PermissionError"})
              => raised = NotFoundError
        /\ (pc = "raised" /\ ~Invalid(args)
                /\ Content(fs, Parent(args.output_file)).state = "dir")
              => raised = NotFoundError

\* C10 witness: a directory holding only "n.txt" ended the run with NotFoundError
C10_Witness ==
    /\ NoSupportedFile
    /\ Len(listing) = 1
    /\ pc = "raised"
    /\ raised = NotFoundError

----------------------------------------------------------------------------
(* C11 *)

\* assemble() is called with a valid configuration, at least one supported
\* asset, a writable output location apart from the intermediates, and an
\* engine of which no invocation will fail or write an empty file
FaultFreeStart ==
    /\ pc = "validate"
    /\ budget = 0
    /\ ~Invalid(args)
    /\ Supported(listing) # <<>>
    /\ Content(MakeDirs(fs, Parent(args.output_file)), Parent(args.output_file)).state = "dir"
    /\ OutputApart

C11_WitnessSingle ==
    /\ pc = "returned"
    /\ budget = 0
    /\ Len(files) = 1
    /\ OutputComplete

\* C11 witness, 1 < N within one batch
C11_WitnessOneBatch ==
    /\ pc = "returned"
    /\ budget = 0
    /\ Len(files) > 1
    /\ Len(batch_files) = 1
    /\ OutputComplete

----------------------------------------------------------------------------
(* C12 *)

\* the clips of assets k and k+1 (1-based) are consecutive inputs of one
\* crossfade request, so that the tail of clip k overlaps the head of clip k+1
TailConsumed(k) ==
    \E r \in XfadeRequests :
        \E j \in 1..(Len(requests[r].inputs) - 1) :
            /\ requests[r].inputs[j] = TempPath(k - 1)
            /\ requests[r].inputs[j + 1] = TempPath(k)

\* C12 as stated: for image-only assets the transition tail of every non-last
\* asset is consumed by a crossfade with the next asset, also across a batch
\* boundary, and the output lasts N * image_duration
C12_VisibleTime ==
    (pc = "returned" /\ AllImages /\ OutputComplete) =>
        /\ \A k \in 1..(Len(files) - 1) : TailConsumed(k)
        /\ Content(fs, args.output_file).dur = Len(files) * args.image_duration

----------------------------------------------------------------------------
(* C13 *)

\* the temporary clip and the duration of asset k (1-based) of the run
ClipOf(k) == TempPath(k - 1)
DurationOf(k) == clip_duration(files[k], k - 1, args)

\* request r was made for batch b: the clips of the batch's assets in asset
\* order, each paired with its own asset's duration
BatchInOrder(r, b) ==
    LET first == b * batch_size
        n == Min(Len(files), first + batch_size) - first
    IN  /\ requests[r].inputs = [j \in 1..n |-> ClipOf(first + j)]
        /\ requests[r].op = "xfade" =>
              requests[r].durations = [j \in 1..n |-> DurationOf(first + j)]
        /\ requests[r].output = BatchPath(b)

\* C13: whatever order the render jobs end in, the r-th request of the control
\* thread is made for batch r-1 with its clips in asset order, every rendered
\* clip holds its own asset, and the final request combines the batch segments
\* in ascending batch index
C13_AssetOrder ==
    /\ \A r \in 1..Len(requests) :
          IF requests[r].output = output_file
          THEN /\ r = Len(requests)
               /\ r = NumBatches(Len(files)) + 1
               /\ requests[r].inputs = [b \in 1..(r - 1) |-> resolve(BatchPath(b - 1))]
                     \/ (r = 2 /\ requests[r].inputs = <<BatchPath(0)>>)
          ELSE BatchInOrder(r, r - 1)
    /\ (pc = "returned" /\ OutputComplete) =>
          Content(fs, args.output_file).clips = [k \in 1..Len(files) |-> files[k].name]

\* C13 witness: a run in which a job ended before an earlier-submitted one has
\* crossfaded its clips and returned
C13_Witness ==
    /\ pc = "returned"
    /\ overtaken
    /\ Len(files) > 2
    /\ XfadeRequests # {}

\* C13 witness, several batches
C13_WitnessBatches ==
    /\ pc = "returned"
    /\ overtaken
    /\ Len(batch_files) > 1

----------------------------------------------------------------------------
(* C14 *)

\* the render job of asset index i has started
Started(i) == futures[i].status \in {"running", "done", "failed"}

\* C14 as stated: no clip of batch b+1 starts rendering before batch b has been
\* rendered and crossfade-concatenated: when the job of asset index i has
\* started, the segments of all batches before the batch of i exist
C14_BatchesSequential ==
    \A i \in Indices : Started(i) => Len(batch_files) >= i \div batch_size

----------------------------------------------------------------------------
(* C15 *)

\* the batch segment files that exist
SegmentFiles == {p \in DOMAIN fs : p.dir = "cwd" /\ p.stem = "batch_"}

\* C15 as stated: at every point of a run at most two batch segment files
\* exist at the same time
C15_TwoSegments == Cardinality(SegmentFiles) <= 2

----------------------------------------------------------------------------
(* C16 *)

\* C16: at every point the jobs blocked on their engine invocation are at most
\* args.threads, and once the control thread has left the pool's with-block
\* (the integrity check, every rename and concatenation) no job is running or
\* queued: every job has returned
C16_PoolBound ==
    /\ Cardinality(Running) <= args.threads
    /\ (Collected \/ requests # <<>>) =>
          \A i \in Indices : futures[i].status = "done"

\* C16 witness: every worker is busy and a job is waiting for a free worker
C16_Witness ==
    /\ args.threads = MaxThreads
    /\ Cardinality(Running) = args.threads
    /\ \E i \in Indices : futures[i].status = "pending"

\* C16 witness: a crossfade request was made after a pool of several workers ended
C16_WitnessConcat ==
    /\ args.threads > 1
    /\ Len(files) > args.threads
    /\ XfadeRequests # {}

----------------------------------------------------------------------------
(* C17 *)

\* the paths a step writes: created, or holding another content than before
Written == {p \in DOMAIN fs' : p \notin DOMAIN fs \/ fs'[p] # fs[p]}

\* the step in which the render job of asset index i ends
JobEnds(i) == futures[i].status = "running" /\ futures'[i].status # "running"

----------------------------------------------------------------------------
(* C18 *)

\* C18 as stated: every artifact an engine call reported as written is checked
\* before a later stage consumes it: when a batch is about to be concatenated
\* none of its clips is missing or empty, and when the final stage is about to
\* combine the batch segments none of them is missing or empty (the run would
\* have failed with IntegrityError instead)
C18_IntegrityChecked ==
    /\ pc = "batch" =>
          \A k \in 1..Len(batch_temp_files) : ~MissingOrEmpty(fs, batch_temp_files[k])
    /\ pc = "final" =>
          \A b \in 1..Len(batch_files) : ~MissingOrEmpty(fs, batch_files[b])

----------------------------------------------------------------------------
(* C19 *)

\* the run ended because an engine invocation failed: a render job raised, or
\* the last request of the control thread (a crossfade or the final
\* concatenation) did
EngineFailed ==
    /\ pc = "raised"
    /\ \/ \E i \in Indices : futures[i].status = "failed"
       \/ requests # <<>>

\* C19 as stated: a failed engine invocation at any stage surfaces from
\* assemble() as the same EngineError
C19_EngineErrors == EngineFailed => raised = EngineError

----------------------------------------------------------------------------
(* C20 *)

\* main() of run.py has ended and this run wrote a complete video to the output path
RunProducedOutput ==
    /\ pc = "run_done"
    /\ exists(fs, args.output_file)
    /\ Content(fs, args.output_file).state = "full"

\* C20 as stated: in the run.py pipeline a failed segment or a failed
\* combination of the batch outputs aborts the run, so a video this run produced
\* holds a clip of every asset of the input set, in order
C20_FailFast ==
    RunProducedOutput =>
        Content(fs, args.output_file).clips = [k \in 1..Len(files) |-> files[k].name]

\* C20 as stated, the combination of the batch outputs alone: when every
\* segment was created, a video this run produced holds them all
C20_NoFirstBatchOnly ==
    (RunProducedOutput /\ Len(temp_files) = Len(files)) =>
        Content(fs, args.output_file).clips = [k \in 1..Len(files) |-> files[k].name]

----------------------------------------------------------------------------
(* C21 *)

\* the number of clips of batch b (0-based) of the run
ClipsOfBatch(b) == Min(Len(files), (b + 1) * batch_size) - b * batch_size

\* C21: a batch of exactly one clip becomes its segment by a rename alone: the
\* request made for it is a rename of the clip to the batch path, no engine
\* request, and until the final stage consumes it the segment is the rendered
\* clip itself, which no longer exists under its temporary name
C21_SingleClipRename ==
    \A b \in 0..(Len(batch_files) - 1) :
        ClipsOfBatch(b) = 1 =>
            /\ requests[b + 1] = RenameRequest(ClipOf(b * batch_size + 1), BatchPath(b))
            /\ pc \in {"batch", "final"} =>
                  /\ exists(fs, BatchPath(b))
                  /\ Content(fs, BatchPath(b)) =
                        Media(<<files[b * batch_size + 1].name>>, DurationOf(b * batch_size + 1))
                  /\ ~exists(fs, ClipOf(b * batch_size + 1))

\* C21 witness: N = 11, the trailing batch of one clip has become batch_001
C21_Witness ==
    /\ pc = "final"
    /\ Len(files) = batch_size + 1
    /\ Len(batch_files) = 2

\* C21 witness, N = 1
C21_WitnessSingle ==
    /\ pc = "final"
    /\ Len(files) = 1
    /\ Len(batch_files) = 1

----------------------------------------------------------------------------
(* C22 *)

\* the length a clip is given before the transitions are laid out
ClipLength(entry, a) ==
    IF is_image(entry) THEN a.image_duration ELSE Min(entry.probe, a.max_video_duration)

\* the configurations C22 is about: an opacity outside [0, 1], or text fades
\* that together are not shorter than some clip of the directory
ViolatesTextConfiguration(a, entries) ==
    \/ ~(0 <= a.background_opacity /\ a.background_opacity <= 100)
    \/ \E k \in 1..Len(entries) :
          a.text_fade_in + a.text_fade_out >= ClipLength(entries[k], a)

\* C22: a run on such a configuration never renders (no job is submitted,
\* nothing is asked of the engine) and ends with ValidationError
C22_TextValidation ==
    ViolatesTextConfiguration(args, Supported(listing)) =>
        /\ futures = <<>>
        /\ requests = <<>>
        /\ Ended => raised = ValidationError

----------------------------------------------------------------------------
(* C23 *)

\* the paths of the intermediates of a run of n clips: each temp_NNN.mp4,
\* each batch_NNN.mp4 and batch_list.txt
Intermediates(n) ==
    {TempPath(i) : i \in 0..(n - 1)} \cup {BatchPath(b) : b \in 0..(NumBatches(n) - 1)}
        \cup {list_file}

\* C23: once assemble() has returned, none of the intermediates of the run
\* exists, whether a rename or the engine consumed it
C23_IntermediatesGone ==
    pc = "returned" => \A p \in Intermediates(Len(files)) : ~exists(fs, p)

\* C23 witness: a returned run of 11 clips: ten clips consumed by the engine,
\* one by a rename, two batch files and batch_list.txt
C23_Witness ==
    /\ pc = "returned"
    /\ Len(files) = batch_size + 1
    /\ Len(batch_files) = 2
    /\ OutputComplete

\* C23 witness, N = 1: every intermediate was consumed by a rename
C23_WitnessSingle ==
    /\ pc = "returned"
    /\ Len(files) = 1
    /\ OutputComplete

----------------------------------------------------------------------------
(* C24 *)

\* C24: the output file exists when assemble() returns, whatever the output
\* path, the name of an intermediate included
C24_OutputKept == pc = "returned" => exists(fs, args.output_file)

----------------------------------------------------------------------------
(* The drop watcher (src/app.py, DropHandler).  The observer dispatches the *)
(* events of the working folder one at a time on its own thread, so a       *)
(* handler runs to its end before the next event is looked at.  A path is   *)
(* written as the name inside working_folder: the handler only ever joins   *)
(* working_folder with a base name.  The timestamp of a file_list entry is  *)
(* left out.                                                                *)

MaxDrops == 3

\* "a.jpg", "b.MP4", "#1#a.jpg" and "n.txt"
DropNames == { <<97, 46, 106, 112, 103>>,
               <<98, 46, 77, 80, 52>>,
               <<35, 49, 35, 97, 46, 106, 112, 103>>,
               <<110, 46, 116, 120, 116>> }

\* self.valid_extensions
valid_extensions == { <<46, 106, 112, 103>>, <<46, 106, 112, 101, 103>>, <<46, 112, 110, 103>>,
                      <<46, 109, 112, 52>>, <<46, 109, 111, 118>>, <<46, 97, 118, 105>> }

\* str.endswith with a tuple of suffixes
endswith(s, sufs) ==
    \E x \in sufs : Len(s) >= Len(x) /\ SubSeq(s, Len(s) - Len(x) + 1, Len(s)) = x

isdigit(c) == c \in 48..57

\* str(n), as character codes
str(n) == [k \in 1..Len(Digits(n)) |-> 48 + Digits(n)[k]]

\* rename_file, the while loop: "#" and one digit are cut off the front as
\* long as the name starts with "#" followed by a digit
RECURSIVE clean_file_name(_)
clean_file_name(name) ==
    IF Len(name) >= 2 /\ name[1] = 35 /\ isdigit(name[2])
    THEN clean_file_name(SubSeq(name, 3, Len(name)))
    ELSE name

\* rename_file, the while loop: clean_file_name[1] raises IndexError on "#"
RECURSIVE StripRaises(_)
StripRaises(name) ==
    /\ name # <<>>
    /\ name[1] = 35
    /\ \/ Len(name) < 2
       \/ isdigit(name[2]) /\ StripRaises(SubSeq(name, 3, Len(name)))

\* f"#{self.insertion_counter}#{clean_file_name}"
new_file_name(counter, name) == <<35>> \o str(counter) \o <<35>> \o clean_file_name(name)

\* os.rename(src, dst) inside the folder: dst, replaced when it exists, is the
\* file that was src
FolderRename(f, src, dst) ==
    [n \in (DOMAIN f \ {src}) \cup {dst} |-> IF n = dst THEN f[src] ELSE f[n]]

\* a file of the folder: which drop it is, and the counters rename_file gave it
Dropped(id) == [id |-> id, prefixes |-> <<>>]

\* an event of the folder, with the path its handler reads (src_path of a
\* creation, dest_path of a move)
Event(type, path) == [type |-> type, path |-> path]

\* a file is copied or moved into the working folder, replacing a file of the
\* same name; the observer queues the creation
Drop ==
    /\ pc = "watching"
    /\ dropped < MaxDrops
    /\ \E name \in DropNames :
          /\ folder' = [n \in DOMAIN folder \cup {name} |->
                          IF n = name THEN Dropped(dropped + 1) ELSE folder[n]]
          /\ events' = Append(events, Event("created", name))
    /\ dropped' = dropped + 1
    /\ UNCHANGED <<insertion_counter, processed_files, file_list>>
    /\ UNCHANGED pipeline

\* the body on_created and on_moved share: a path with a valid extension that
\* is not in processed_files goes to rename_file, which counts first and
\* returns None when anything raises; a renamed file is appended and marked,
\* and its rename is seen by the observer as a move or as a creation of the
\* new path
Handle(file_path) ==
    IF endswith(lower(file_path), valid_extensions) /\ file_path \notin processed_files
    THEN /\ insertion_counter' = insertion_counter + 1
         /\ IF StripRaises(file_path) \/ file_path \notin DOMAIN folder
            THEN /\ events' = Tail(events)
                 /\ UNCHANGED <<folder, processed_files, file_list>>
            ELSE \E new_file_path \in {new_file_name(insertion_counter + 1, file_path)} :
                    /\ folder' = [FolderRename(folder, file_path, new_file_path)
                                    EXCEPT ![new_file_path].prefixes =
                                              Append(@, insertion_counter + 1)]
                    /\ file_list' = Append(file_list, new_file_path)
                    /\ processed_files' = processed_files \cup {new_file_path}
                    /\ \E type \in {"created", "moved"} :
                          events' = Append(Tail(events), Event(type, new_file_path))
    ELSE /\ events' = Tail(events)
         /\ UNCHANGED <<folder, insertion_counter, processed_files, file_list>>

\* DropHandler.on_created
on_created ==
    /\ pc = "watching"
    /\ events # <<>>
    /\ Head(events).type = "created"
    /\ Handle(Head(events).path)
    /\ UNCHANGED dropped
    /\ UNCHANGED pipeline

\* DropHandler.on_moved
on_moved ==
    /\ pc = "watching"
    /\ events # <<>>
    /\ Head(events).type = "moved"
    /\ Handle(Head(events).path)
    /\ UNCHANGED dropped
    /\ UNCHANGED pipeline

\* the application window is open on an empty working folder, no assembly is
\* running
WatchInit ==
    /\ WatcherStart
    /\ args = AppArgs(80, 4, 2)
    /\ listing = <<>>
    /\ budget = 0
    /\ pc = "watching"
    /\ width = 0
    /\ height = 0
    /\ files = <<>>
    /\ futures = <<>>
    /\ temp_files = <<>>
    /\ clip_durations = <<>>
    /\ batch_files = <<>>
    /\ requests = <<>>
    /\ fs = InitialFs("nodir")
    /\ fs0 = fs
    /\ raised = "none"
    /\ overtaken = FALSE
    /\ run_idx = 0

WatchNext ==
    \/ Drop
    \/ on_created
    \/ on_moved

WatchSpec == WatchInit /\ [][WatchNext]_vars

----------------------------------------------------------------------------
(* C25 *)

\* every event has been dispatched
Quiet == events = <<>>

\* the counter rename_file put in front of an entry of file_list that is
\* still in the folder
PrefixOf(k) == folder[file_list[k]].prefixes[1]
Listed == {k \in DOMAIN file_list :
              file_list[k] \in DOMAIN folder /\ folder[file_list[k]].prefixes # <<>>}

\* C25: once the watcher is quiet, every file of the folder with a valid
\* extension was renamed exactly once and is in file_list exactly once; and at
\* any time the counters given to the accepted files are pairwise distinct and
\* increase along file_list
C25_RenamedOnce ==
    /\ Quiet =>
          \A name \in DOMAIN folder :
              endswith(lower(name), valid_extensions) =>
                  /\ Len(folder[name].prefixes) = 1
                  /\ Cardinality({k \in DOMAIN file_list : file_list[k] = name}) = 1
    /\ \A i, j \in Listed : i < j => PrefixOf(i) < PrefixOf(j)

\* no file is renamed a second time: the event raised by the rename itself is
\* not acted upon
EchoIgnored == \A name \in DOMAIN folder : Len(folder[name].prefixes) <= 1

====
